---- MODULE Spec2Model ----
(***************************************************************************)
(* Model of open_source_template_v01.py: the raster transform operations   *)
(* (stack, restack, reproject, copy, delete) over a file system, the       *)
(* metadata catalog writer, the coordinate reference resolver and the      *)
(* Sentinel-2 band classifier.                                             *)
(*                                                                         *)
(* A call is one action.  The file system is a function from the paths of  *)
(* the files that exist to their contents; a statement sequence of the     *)
(* source is a chain of operators over an execution record                 *)
(* [fs, log, exc, touched], where exc # "" means an exception is propagating and    *)
(* every later statement is skipped.                                       *)
(***************************************************************************)
EXTENDS Integers, Sequences, FiniteSets, TLC

VARIABLES
    fs,                 \* path -> content, for the files that exist
    OVERWRITE,          \* the module global OVERWRITE
    writeMessageBound,  \* does the global name writeMessage resolve at call time
    pre,                \* fs as it was when the last call started
    call,               \* the last call: operation and arguments
    log,                \* the lines the last call printed
    exc,                \* "" when the last call returned, else the exception
    touched,            \* the paths the last call removed, created or wrote
    ret                 \* the value the last call returned

vars == <<fs, OVERWRITE, writeMessageBound, pre, call, log, exc, touched, ret>>

(***************************************************************************)
(* Strings.  TLC evaluates Len, \o and SubSeq on strings.                  *)
(***************************************************************************)
CharAt(s, i) == SubSeq(s, i, i)

\* Python's `t in s`
Contains(s, t) ==
    \E i \in 1..(Len(s) - Len(t) + 1) : SubSeq(s, i, i + Len(t) - 1) = t

\* Python's s.startswith(t)
StartsWith(s, t) == Len(t) <= Len(s) /\ SubSeq(s, 1, Len(t)) = t

RECURSIVE ReplaceFrom(_, _, _, _)
ReplaceFrom(s, old, new, i) ==
    LET hits == {j \in i..(Len(s) - Len(old) + 1) :
                    SubSeq(s, j, j + Len(old) - 1) = old}
    IN  IF hits = {} THEN SubSeq(s, i, Len(s))
        ELSE LET j == CHOOSE h \in hits : \A k \in hits : h <= k
             IN  SubSeq(s, i, j - 1) \o new
                    \o ReplaceFrom(s, old, new, j + Len(old))

RECURSIVE Interleave(_, _, _)
Interleave(s, new, i) ==
    IF i > Len(s) THEN new
    ELSE new \o CharAt(s, i) \o Interleave(s, new, i + 1)

\* Python's s.replace(old, new): every non-overlapping occurrence, left to
\* right; an empty `old` matches before every character and at the end.
Replace(s, old, new) ==
    IF old = "" THEN Interleave(s, new, 1) ELSE ReplaceFrom(s, old, new, 1)

UpperChars == "ABCDEFGHIJKLMNOPQRSTUVWXYZ"
LowerChars == "abcdefghijklmnopqrstuvwxyz"

LowerChar(c) ==
    IF \E k \in 1..26 : CharAt(UpperChars, k) = c
    THEN CharAt(LowerChars, CHOOSE k \in 1..26 : CharAt(UpperChars, k) = c)
    ELSE c

RECURSIVE LowerFrom(_, _)
LowerFrom(s, i) ==
    IF i > Len(s) THEN "" ELSE LowerChar(CharAt(s, i)) \o LowerFrom(s, i + 1)

\* Python's s.lower() on ASCII text
Lower(s) == LowerFrom(s, 1)

RECURSIVE JoinInts(_, _)
JoinInts(q, i) ==
    IF i > Len(q) THEN ""
    ELSE (IF i > 1 THEN ", " ELSE "") \o ToString(q[i]) \o JoinInts(q, i + 1)

\* Python's str() of a list of integers: "[3, 2, 1]"
StrIntList(q) == "[" \o JoinInts(q, 1) \o "]"

(***************************************************************************)
(* Paths (ntpath / os.path on paths without a drive letter).               *)
(***************************************************************************)
IsSep(c) == c = "/" \/ c = "\\"

\* index of the last separator of p, 0 when there is none
LastSep(p) ==
    LET S == {i \in 1..Len(p) : IsSep(CharAt(p, i))}
    IN  IF S = {} THEN 0 ELSE CHOOSE i \in S : \A j \in S : j <= i

RECURSIVE RStripSeps(_)
RStripSeps(s) ==
    IF Len(s) > 0 /\ IsSep(CharAt(s, Len(s)))
    THEN RStripSeps(SubSeq(s, 1, Len(s) - 1))
    ELSE s

\* ntpath.basename
basename(p) == SubSeq(p, LastSep(p) + 1, Len(p))

\* ntpath.dirname: the head up to the last separator, trailing separators
\* stripped unless the head consists of separators only
dirname(p) ==
    LET head == SubSeq(p, 1, LastSep(p))
    IN  IF RStripSeps(head) = "" THEN head ELSE RStripSeps(head)

\* os.path.splitext(name)[1] for a name without separators: from the last
\* dot on, provided a character other than '.' precedes that dot
splitext_ext(name) ==
    LET D == {i \in 1..Len(name) : CharAt(name, i) = "."}
        d == IF D = {} THEN 0 ELSE CHOOSE i \in D : \A j \in D : j <= i
    IN  IF d > 0 /\ \E k \in 1..(d - 1) : CharAt(name, k) # "."
        THEN SubSeq(name, d, Len(name))
        ELSE ""

(***************************************************************************)
(* Bounds and the sample data the calls are drawn from.                    *)
(***************************************************************************)
MaxStack == 2       \* longest new_stack passed to restack_bands
MaxList == 2        \* longest list_bands passed to stack_rasters

PathA == "in/a.tif"            \* an input raster with three bands
PathB == "in/b.tif"            \* an input raster with one band
PathMissing == "in/none.tif"   \* a path at which no file ever exists
OutPath == "out/o.tif"         \* the output raster of every transform

InputPaths == {PathA, PathB, PathMissing}

\* one band of pixels: `data` names the pixels, `resampling` and `dst_crs`
\* are set when the band went through rasterio.warp.reproject
Pixels(id) == [data |-> id, resampling |-> "", dst_crs |-> ""]
Unwritten == Pixels(0)

RasterA ==
    [kind |-> "raster", driver |-> "GTiff", crs |-> "EPSG:4326",
     transform |-> "affineA", width |-> 4, height |-> 2, dtype |-> "UInt16",
     bands |-> <<Pixels(11), Pixels(12), Pixels(13)>>]

RasterB ==
    [kind |-> "raster", driver |-> "GTiff", crs |-> "EPSG:4148",
     transform |-> "affineB", width |-> 4, height |-> 2, dtype |-> "Float32",
     bands |-> <<Pixels(21)>>]

OldRaster ==
    [kind |-> "raster", driver |-> "GTiff", crs |-> "EPSG:3857",
     transform |-> "affineOld", width |-> 1, height |-> 1, dtype |-> "UInt16",
     bands |-> <<Pixels(91)>>]

SidecarContent == [kind |-> "sidecar"]

GdalTypes == {"UInt16", "Float32"}

(***************************************************************************)
(* The file system and the execution record.                               *)
(***************************************************************************)
NoFiles == [p \in {} |-> SidecarContent]

\* os.path.exists
exists(f, p) == p \in DOMAIN f

Remove(f, p) == [q \in DOMAIN f \ {p} |-> f[q]]

Put(f, p, c) == [q \in DOMAIN f \cup {p} |-> IF q = p THEN c ELSE f[q]]

Start(f) == [fs |-> f, log |-> <<>>, exc |-> "", touched |-> {}]

Ok(st) == st.exc = ""

Raise(st, e) == IF Ok(st) THEN [st EXCEPT !.exc = e] ELSE st

Clock == "2019-01-01 00:00:00"

\* write_message formats the line it prints
write_message(message) == "[" \o Clock \o "] " \o message

\* Every call site spells the helper writeMessage, a name the module itself
\* never binds (it defines write_message): the call raises NameError unless
\* the importing script has bound that name to the helper.
writeMessage(st, message) ==
    IF ~Ok(st) THEN st
    ELSE IF writeMessageBound
         THEN [st EXCEPT !.log = Append(@, write_message(message))]
         ELSE Raise(st, "NameError")

\* os.remove
os_remove(st, p) ==
    IF ~Ok(st) THEN st
    ELSE IF exists(st.fs, p)
         THEN [st EXCEPT !.fs = Remove(@, p), !.touched = @ \cup {p}]
    ELSE Raise(st, "FileNotFoundError")

\* rasterio.open(p) for reading
CanOpen(f, p) == exists(f, p) /\ f[p].kind = "raster"

open_read(st, p) ==
    IF ~Ok(st) \/ CanOpen(st.fs, p) THEN st ELSE Raise(st, "RasterioIOError")

\* get_raster_dtype: the GDAL type name of band 1, in lower case
get_raster_dtype(raster) == Lower(raster.dtype)

\* the GDAL type a raster created with numpy dtype name d gets
GdalTypeOf(d) == CHOOSE n \in GdalTypes : Lower(n) = d

\* rasterio.open(p, 'w', ...): a new file whose bands are not yet written
open_write(st, p, driver, width, height, count, crs, transform, dtype) ==
    IF ~Ok(st) THEN st
    ELSE [st EXCEPT !.fs = Put(@, p,
            [kind |-> "raster", driver |-> driver, crs |-> crs,
             transform |-> transform, width |-> width, height |-> height,
             dtype |-> GdalTypeOf(dtype),
             bands |-> [i \in 1..count |-> Unwritten]]),
                     !.touched = @ \cup {p}]

\* dataset.write(data, band_id)
write_band(st, p, band_id, data) ==
    IF ~Ok(st) THEN st
    ELSE [st EXCEPT !.fs[p].bands[band_id] = data, !.touched = @ \cup {p}]

(***************************************************************************)
(* delete_raster and delete_file                                            *)
(***************************************************************************)
raster_extensions == <<"tfw", "aux.xml", "ovr", "xml">>

\* the path delete_raster looks at for one extension of raster_extensions
SidecarFile(raster_to_delete, extension) ==
    LET base_name == basename(raster_to_delete)
        base_extension == splitext_ext(base_name)
        base_path == dirname(raster_to_delete) \o "/"
        filename == IF Contains(extension, "tfw")
                    THEN Replace(base_name, base_extension, "." \o extension)
                    ELSE base_name \o "." \o extension
    IN  base_path \o filename

RECURSIVE RemoveSidecars(_, _, _)
RemoveSidecars(st, raster_to_delete, k) ==
    IF k > Len(raster_extensions) THEN st
    ELSE LET file == SidecarFile(raster_to_delete, raster_extensions[k])
             s1 == IF Ok(st) /\ exists(st.fs, file) THEN os_remove(st, file)
                   ELSE st
         IN  RemoveSidecars(s1, raster_to_delete, k + 1)

delete_raster(st, raster_to_delete) ==
    IF ~Ok(st) \/ ~exists(st.fs, raster_to_delete) THEN st
    ELSE LET s1 == writeMessage(st, "Deleting: " \o raster_to_delete)
             s2 == os_remove(s1, raster_to_delete)
         IN  RemoveSidecars(s2, raster_to_delete, 1)

delete_file(st, file_to_delete) ==
    IF ~Ok(st) \/ ~exists(st.fs, file_to_delete) THEN st
    ELSE os_remove(writeMessage(st, "Deleting: " \o file_to_delete),
                   file_to_delete)

\* variant of ShouldWrite: the `not` dropped
ShouldWriteInverted(f, output, overwrite) == exists(f, output) \/ overwrite

\* `not os.path.exists(output) or overwrite`: the test every writer makes
\* before it deletes and rewrites its output
ShouldWrite(f, output, overwrite) == ~exists(f, output) \/ overwrite

(***************************************************************************)
(* stack_rasters                                                            *)
(***************************************************************************)
\* variant of FirstMissing: only the first band is tested
FirstMissingHeadOnly(f, list_bands) ==
    IF Len(list_bands) > 0 /\ ~exists(f, list_bands[1]) THEN 1 ELSE 0

\* the first loop of stack_rasters: index of the first band that does not
\* exist, 0 when all exist
FirstMissing(f, list_bands) ==
    LET M == {i \in 1..Len(list_bands) : ~exists(f, list_bands[i])}
    IN  IF M = {} THEN 0 ELSE CHOOSE i \in M : \A j \in M : i <= j

\* variant of StackLoop: every output band is read from the first input
RECURSIVE StackLoopFirstInput(_, _, _, _)
StackLoopFirstInput(st, list_bands, output, band_id) ==
    IF ~Ok(st) \/ band_id > Len(list_bands) THEN st
    ELSE LET s1 == open_read(st, list_bands[1])
             s2 == IF Ok(s1)
                   THEN write_band(s1, output, band_id,
                                   s1.fs[list_bands[1]].bands[1])
                   ELSE s1
         IN  StackLoopFirstInput(s2, list_bands, output, band_id + 1)

\* the second loop of stack_rasters: band 1 of each input, in list order,
\* into the output band of the same position
RECURSIVE StackLoop(_, _, _, _)
StackLoop(st, list_bands, output, band_id) ==
    IF ~Ok(st) \/ band_id > Len(list_bands) THEN st
    ELSE LET band == list_bands[band_id]
             s1 == open_read(st, band)
             s2 == IF Ok(s1)
                   THEN write_band(s1, output, band_id, s1.fs[band].bands[1])
                   ELSE s1
         IN  StackLoop(s2, list_bands, output, band_id + 1)

stack_rasters(st, list_bands, output_stacked_raster) ==
    LET missing == FirstMissing(st.fs, list_bands)
    IN  IF missing # 0
        THEN writeMessage(st, "ERROR: Stacking cannot be performed because one of the rasters/bands does not exist: " \o list_bands[missing])
        ELSE IF ~ShouldWrite(st.fs, output_stacked_raster, OVERWRITE) THEN st
        ELSE LET band_count == Len(list_bands)
                 s1 == delete_raster(st, output_stacked_raster)
                 s2 == writeMessage(s1, "Stacking " \o ToString(band_count) \o " bands...")
                 s3 == IF ~Ok(s2) THEN s2
                       ELSE IF band_count = 0 THEN Raise(s2, "IndexError")
                       ELSE open_read(s2, list_bands[1])
                 band_obj1 == s3.fs[list_bands[1]]
                 dtype == get_raster_dtype(band_obj1)
                 s4 == writeMessage(s3, "Raster dtype: " \o dtype)
                 s5 == open_write(s4, output_stacked_raster, "Gtiff",
                                  band_obj1.width, band_obj1.height, band_count,
                                  band_obj1.crs, band_obj1.transform, dtype)
             IN  IF ~Ok(s3) THEN s3
                 ELSE IF ~Ok(s4) THEN s4
                 ELSE StackLoop(s5, list_bands, output_stacked_raster, 1)

(***************************************************************************)
(* restack_bands                                                            *)
(***************************************************************************)
\* the validation loop: index of the first element of new_stack outside
\* [1, band_count], 0 when all are inside
FirstInvalid(new_stack, band_count) ==
    LET M == {i \in 1..Len(new_stack) :
                new_stack[i] <= 0 \/ new_stack[i] > band_count}
    IN  IF M = {} THEN 0 ELSE CHOOSE i \in M : \A j \in M : i <= j

\* variant of RestackLoop: the source band is read at the index of the
\* new band when the source has one there, not at new_stack's element
RECURSIVE RestackLoopSamePosition(_, _, _, _, _)
RestackLoopSamePosition(st, orig_raster, output, new_stack, new_band_id) ==
    IF ~Ok(st) \/ new_band_id > Len(new_stack) THEN st
    ELSE RestackLoopSamePosition(
            write_band(st, output, new_band_id,
                       orig_raster.bands[IF new_band_id <= Len(orig_raster.bands)
                                         THEN new_band_id ELSE 1]),
            orig_raster, output, new_stack, new_band_id + 1)

\* the writing loop of restack_bands
RECURSIVE RestackLoop(_, _, _, _, _)
RestackLoop(st, orig_raster, output, new_stack, new_band_id) ==
    IF ~Ok(st) \/ new_band_id > Len(new_stack) THEN st
    ELSE RestackLoop(write_band(st, output, new_band_id,
                                orig_raster.bands[new_stack[new_band_id]]),
                     orig_raster, output, new_stack, new_band_id + 1)

restack_bands(st, input_raster, output_restacked_raster, new_stack) ==
    IF ~exists(st.fs, input_raster)
    THEN writeMessage(st, "ERROR: Input raster does not exist: " \o input_raster)
    ELSE IF ~ShouldWrite(st.fs, output_restacked_raster, OVERWRITE) THEN st
    ELSE LET s1 == delete_raster(st, output_restacked_raster)
             new_stack_len == Len(new_stack)
         IN  IF ~Ok(s1) THEN s1
             ELSE IF new_stack_len = 0
             THEN writeMessage(s1, "ERROR: Not performing restack because the new band stack is empty: " \o StrIntList(new_stack))
             ELSE LET s2 == open_read(s1, input_raster)
                      orig_raster == s2.fs[input_raster]
                      dtype == get_raster_dtype(orig_raster)
                      band_count == Len(orig_raster.bands)
                      s3 == writeMessage(s2, "Restacking: " \o input_raster)
                      s4 == writeMessage(s3, "Original raster band count: " \o ToString(band_count))
                      s5 == writeMessage(s4, "New raster band count: " \o ToString(new_stack_len))
                      bad == FirstInvalid(new_stack, band_count)
                      s6 == writeMessage(s5, "New stack: " \o StrIntList(new_stack))
                      s7 == open_write(s6, output_restacked_raster, "Gtiff",
                                       orig_raster.width, orig_raster.height,
                                       new_stack_len, orig_raster.crs,
                                       orig_raster.transform, dtype)
                  IN  IF ~Ok(s2) THEN s2
                      ELSE IF ~Ok(s5) THEN s5
                      ELSE IF bad # 0
                      THEN writeMessage(s5, "ERROR: Restack band " \o ToString(new_stack[bad]) \o " is outside the possible band range")
                      ELSE IF ~Ok(s6) THEN s6
                      ELSE RestackLoop(s7, orig_raster, output_restacked_raster,
                                       new_stack, 1)

(***************************************************************************)
(* get_resampling, get_epsg_projection_code, project_raster                 *)
(***************************************************************************)
\* returns the execution record and the Resampling member chosen
get_resampling(st, resampling_str) ==
    IF resampling_str = "nearest"
    THEN [st |-> st, resampling |-> "Resampling.nearest"]
    ELSE IF resampling_str = "bilinear"
    THEN [st |-> st, resampling |-> "Resampling.bilinear"]
    ELSE IF resampling_str = "cubic"
    THEN [st |-> st, resampling |-> "Resampling.cubic"]
    ELSE [st |-> writeMessage(st, "WARNING: Unknown resampling methods (" \o resampling_str \o "), nearest resampling will be applied."),
          resampling |-> "Resampling.nearest"]

\* variant of projection_not_found: the name is not appended
projection_not_found_bare(projection_name) == "ERROR: Projection not found: "

\* the value returned for a name none of the comparisons accepts
projection_not_found(projection_name) ==
    "ERROR: Projection not found: " \o projection_name

get_epsg_projection_code(projection_name) ==
    IF "wgs84" = projection_name THEN
        "EPSG:4326"
    ELSE IF "hartebeesthoek" = projection_name THEN
        "EPSG:4148"
    ELSE IF "lo15" = projection_name THEN
        "PROJCS[\"Lo15\",GEOGCS[\"Hartebeesthoek94\",DATUM[\"D_Hartebeesthoek_1994\",SPHEROID[\"WGS_1984\",6378137,298.257223563]],PRIMEM[\"Greenwich\",0],UNIT[\"Degree\",0.017453292519943295]],PROJECTION[\"Transverse_Mercator\"],PARAMETER[\"latitude_of_origin\",0],PARAMETER[\"central_meridian\",15],PARAMETER[\"scale_factor\",1],PARAMETER[\"false_easting\",0],PARAMETER[\"false_northing\",0],UNIT[\"Meter\",1]]"
    ELSE IF "lo17" = projection_name THEN
        "PROJCS[\"Lo17\",GEOGCS[\"Hartebeesthoek94\",DATUM[\"D_Hartebeesthoek_1994\",SPHEROID[\"WGS_1984\",6378137,298.257223563]],PRIMEM[\"Greenwich\",0],UNIT[\"Degree\",0.017453292519943295]],PROJECTION[\"Transverse_Mercator\"],PARAMETER[\"latitude_of_origin\",0],PARAMETER[\"central_meridian\",17],PARAMETER[\"scale_factor\",1],PARAMETER[\"false_easting\",0],PARAMETER[\"false_northing\",0],UNIT[\"Meter\",1]]"
    ELSE IF "lo19" = projection_name THEN
        "PROJCS[\"Lo19\",GEOGCS[\"Hartebeesthoek94\",DATUM[\"D_Hartebeesthoek_1994\",SPHEROID[\"WGS_1984\",6378137,298.257223563]],PRIMEM[\"Greenwich\",0],UNIT[\"Degree\",0.017453292519943295]],PROJECTION[\"Transverse_Mercator\"],PARAMETER[\"latitude_of_origin\",0],PARAMETER[\"central_meridian\",19],PARAMETER[\"scale_factor\",1],PARAMETER[\"false_easting\",0],PARAMETER[\"false_northing\",0],UNIT[\"Meter\",1]]"
    ELSE IF "lo21" = projection_name THEN
        "PROJCS[\"Lo21\",GEOGCS[\"Hartebeesthoek94\",DATUM[\"D_Hartebeesthoek_1994\",SPHEROID[\"WGS_1984\",6378137,298.257223563]],PRIMEM[\"Greenwich\",0],UNIT[\"Degree\",0.017453292519943295]],PROJECTION[\"Transverse_Mercator\"],PARAMETER[\"latitude_of_origin\",0],PARAMETER[\"central_meridian\",21],PARAMETER[\"scale_factor\",1],PARAMETER[\"false_easting\",0],PARAMETER[\"false_northing\",0],UNIT[\"Meter\",1]]"
    ELSE IF "lo23" = projection_name THEN
        "PROJCS[\"Lo23\",GEOGCS[\"Hartebeesthoek94\",DATUM[\"D_Hartebeesthoek_1994\",SPHEROID[\"WGS_1984\",6378137,298.257223563]],PRIMEM[\"Greenwich\",0],UNIT[\"Degree\",0.017453292519943295]],PROJECTION[\"Transverse_Mercator\"],PARAMETER[\"latitude_of_origin\",0],PARAMETER[\"central_meridian\",23],PARAMETER[\"scale_factor\",1],PARAMETER[\"false_easting\",0],PARAMETER[\"false_northing\",0],UNIT[\"Meter\",1]]"
    ELSE IF "lo25" = projection_name THEN
        "PROJCS[\"Lo25\",GEOGCS[\"Hartebeesthoek94\",DATUM[\"D_Hartebeesthoek_1994\",SPHEROID[\"WGS_1984\",6378137,298.257223563]],PRIMEM[\"Greenwich\",0],UNIT[\"Degree\",0.017453292519943295]],PROJECTION[\"Transverse_Mercator\"],PARAMETER[\"latitude_of_origin\",0],PARAMETER[\"central_meridian\",25],PARAMETER[\"scale_factor\",1],PARAMETER[\"false_easting\",0],PARAMETER[\"false_northing\",0],UNIT[\"Meter\",1]]"
    ELSE IF "lo27" = projection_name THEN
        "PROJCS[\"Lo27\",GEOGCS[\"Hartebeesthoek94\",DATUM[\"D_Hartebeesthoek_1994\",SPHEROID[\"WGS_1984\",6378137,298.257223563]],PRIMEM[\"Greenwich\",0],UNIT[\"Degree\",0.017453292519943295]],PROJECTION[\"Transverse_Mercator\"],PARAMETER[\"latitude_of_origin\",0],PARAMETER[\"central_meridian\",27],PARAMETER[\"scale_factor\",1],PARAMETER[\"false_easting\",0],PARAMETER[\"false_northing\",0],UNIT[\"Meter\",1]]"
    ELSE IF "lo29" = projection_name THEN
        "PROJCS[\"Lo29\",GEOGCS[\"Hartebeesthoek94\",DATUM[\"D_Hartebeesthoek_1994\",SPHEROID[\"WGS_1984\",6378137,298.257223563]],PRIMEM[\"Greenwich\",0],UNIT[\"Degree\",0.017453292519943295]],PROJECTION[\"Transverse_Mercator\"],PARAMETER[\"latitude_of_origin\",0],PARAMETER[\"central_meridian\",29],PARAMETER[\"scale_factor\",1],PARAMETER[\"false_easting\",0],PARAMETER[\"false_northing\",0],UNIT[\"Meter\",1]]"
    ELSE IF "lo31" = projection_name THEN
        "PROJCS[\"Lo31\",GEOGCS[\"Hartebeesthoek94\",DATUM[\"D_Hartebeesthoek_1994\",SPHEROID[\"WGS_1984\",6378137,298.257223563]],PRIMEM[\"Greenwich\",0],UNIT[\"Degree\",0.017453292519943295]],PROJECTION[\"Transverse_Mercator\"],PARAMETER[\"latitude_of_origin\",0],PARAMETER[\"central_meridian\",31],PARAMETER[\"scale_factor\",1],PARAMETER[\"false_easting\",0],PARAMETER[\"false_northing\",0],UNIT[\"Meter\",1]]"
    ELSE IF "lo33" = projection_name THEN
        "PROJCS[\"Lo33\",GEOGCS[\"Hartebeesthoek94\",DATUM[\"D_Hartebeesthoek_1994\",SPHEROID[\"WGS_1984\",6378137,298.257223563]],PRIMEM[\"Greenwich\",0],UNIT[\"Degree\",0.017453292519943295]],PROJECTION[\"Transverse_Mercator\"],PARAMETER[\"latitude_of_origin\",0],PARAMETER[\"central_meridian\",33],PARAMETER[\"scale_factor\",1],PARAMETER[\"false_easting\",0],PARAMETER[\"false_northing\",0],UNIT[\"Meter\",1]]"
    ELSE IF "utm33s" = projection_name THEN
        "PROJCS[\"WGS_1984_UTM_Zone_33S\",GEOGCS[\"GCS_WGS_1984\",DATUM[\"D_WGS_1984\",SPHEROID[\"WGS_1984\",6378137.0,298.257223563]],PRIMEM[\"Greenwich\",0.0],UNIT[\"Degree\",0.0174532925199433]],PROJECTION[\"Transverse_Mercator\"],PARAMETER[\"False_Easting\",500000.0],PARAMETER[\"False_Northing\",10000000.0],PARAMETER[\"Central_Meridian\",15.0],PARAMETER[\"Scale_Factor\",0.9996],PARAMETER[\"Latitude_Of_Origin\",0.0],UNIT[\"Meter\",1.0],AUTHORITY[\"EPSG\",32733]]"
    ELSE IF "utm34s" = projection_name THEN
        "PROJCS[\"WGS_1984_UTM_Zone_34S\",GEOGCS[\"GCS_WGS_1984\",DATUM[\"D_WGS_1984\",SPHEROID[\"WGS_1984\",6378137.0,298.257223563]],PRIMEM[\"Greenwich\",0.0],UNIT[\"Degree\",0.0174532925199433]],PROJECTION[\"Transverse_Mercator\"],PARAMETER[\"False_Easting\",500000.0],PARAMETER[\"False_Northing\",10000000.0],PARAMETER[\"Central_Meridian\",21.0],PARAMETER[\"Scale_Factor\",0.9996],PARAMETER[\"Latitude_Of_Origin\",0.0],UNIT[\"Meter\",1.0],AUTHORITY[\"EPSG\",32734]]"
    ELSE IF "utm35s" = projection_name THEN
        "PROJCS[\"WGS_1984_UTM_Zone_35S\",GEOGCS[\"GCS_WGS_1984\",DATUM[\"D_WGS_1984\",SPHEROID[\"WGS_1984\",6378137.0,298.257223563]],PRIMEM[\"Greenwich\",0.0],UNIT[\"Degree\",0.0174532925199433]],PROJECTION[\"Transverse_Mercator\"],PARAMETER[\"False_Easting\",500000.0],PARAMETER[\"False_Northing\",10000000.0],PARAMETER[\"Central_Meridian\",27.0],PARAMETER[\"Scale_Factor\",0.9996],PARAMETER[\"Latitude_Of_Origin\",0.0],UNIT[\"Meter\",1.0],AUTHORITY[\"EPSG\",32735]]"
    ELSE IF "utm36s" = projection_name THEN
        "PROJCS[\"WGS_1984_UTM_Zone_36S\",GEOGCS[\"GCS_WGS_1984\",DATUM[\"D_WGS_1984\",SPHEROID[\"WGS_1984\",6378137.0,298.257223563]],PRIMEM[\"Greenwich\",0.0],UNIT[\"Degree\",0.0174532925199433]],PROJECTION[\"Transverse_Mercator\"],PARAMETER[\"False_Easting\",500000.0],PARAMETER[\"False_Northing\",10000000.0],PARAMETER[\"Central_Meridian\",33.0],PARAMETER[\"Scale_Factor\",0.9996],PARAMETER[\"Latitude_Of_Origin\",0.0],UNIT[\"Meter\",1.0],AUTHORITY[\"EPSG\",32736]]"
    ELSE IF "albers_africa" = projection_name THEN
        "PROJCS[\"Africa_Albers_Equal_Area_Conic\",GEOGCS[\"GCS_WGS_1984\",DATUM[\"D_WGS_1984\",SPHEROID[\"WGS_1984\",6378137.0,298.257223563]],PRIMEM[\"Greenwich\",0.0],UNIT[\"Degree\",0.0174532925199433]],PROJECTION[\"Albers\"],PARAMETER[\"False_Easting\",0.0],PARAMETER[\"False_Northing\",0.0],PARAMETER[\"Central_Meridian\",25.0],PARAMETER[\"Standard_Parallel_1\",20.0],PARAMETER[\"Standard_Parallel_2\",-23.0],PARAMETER[\"Latitude_Of_Origin\",0.0],UNIT[\"Meter\",1.0]]"
    ELSE IF "albers_south_africa" = projection_name THEN
        "PROJCS[\"South_Africa_Albers_Equal_Area_Conic\",GEOGCS[\"GCS_Hartebeesthoek_1994\",DATUM[\"D_Hartebeesthoek_1994\",SPHEROID[\"WGS_1984\",6378137.0,298.257223563]],PRIMEM[\"Greenwich\",0.0],UNIT[\"Degree\",0.0174532925199433]],PROJECTION[\"Albers\"],PARAMETER[\"False_Easting\",0.0],PARAMETER[\"False_Northing\",0.0],PARAMETER[\"Central_Meridian\",25.0],PARAMETER[\"Standard_Parallel_1\",-33.5],PARAMETER[\"Standard_Parallel_2\",-34.5],PARAMETER[\"Latitude_Of_Origin\",0.0],UNIT[\"Meter\",1.0]]"
    ELSE IF "web" = projection_name THEN
        "EPSG:3857"
    ELSE projection_not_found(projection_name)

\* the names the resolver's comparisons accept
ResolverNames ==
    {"wgs84", "hartebeesthoek", "lo15", "lo17", "lo19", "lo21", "lo23", "lo25",
     "lo27", "lo29", "lo31", "lo33", "utm33s", "utm34s", "utm35s", "utm36s",
     "albers_africa", "albers_south_africa", "web"}

\* a destination reference rasterio can parse: one of the resolver's codes
\* or definitions (the resolver's error text is not one)
ValidCRS(epsg_code) ==
    \E n \in ResolverNames : get_epsg_projection_code(n) = epsg_code

\* rasterio.warp.calculate_default_transform: the destination grid, a value
\* determined by the source grid and the destination reference
calculate_default_transform(source_raster, epsg_code) ==
    [transform |-> "default(" \o source_raster.transform \o ")",
     width |-> source_raster.width, height |-> source_raster.height]

\* rasterio.warp.reproject of one band
reproject(source_band, epsg_code, resampling) ==
    [data |-> source_band.data, resampling |-> resampling, dst_crs |-> epsg_code]

\* range(1, band_count), the bands the projection loop visits
ProjectedBands(band_count) == 1..(band_count - 1)

RECURSIVE ProjectLoop(_, _, _, _, _, _)
ProjectLoop(st, source_raster, output, epsg_code, resampling, band) ==
    IF ~Ok(st) \/ band \notin ProjectedBands(Len(source_raster.bands)) THEN st
    ELSE ProjectLoop(write_band(st, output, band,
                                reproject(source_raster.bands[band], epsg_code,
                                          resampling)),
                     source_raster, output, epsg_code, resampling, band + 1)

project_raster(st, input_raster, output_raster, resampling_str0, epsg_code) ==
    IF ~exists(st.fs, input_raster)
    THEN writeMessage(st, "ERROR: Input raster (" \o input_raster \o ") not found, projecting not performed.")
    ELSE IF ~ShouldWrite(st.fs, output_raster, OVERWRITE) THEN st
    ELSE LET raster_name == basename(input_raster)
             resampling_str == Lower(resampling_str0)
             r == get_resampling(st, resampling_str)
             s1 == writeMessage(r.st, "Project raster: " \o raster_name)
             s2 == writeMessage(s1, "Resampling: " \o resampling_str)
             s3 == writeMessage(s2, "EPSG code: " \o epsg_code)
             s4 == delete_raster(s3, output_raster)
             s5 == open_read(s4, input_raster)
             source_raster == s5.fs[input_raster]
             s6 == IF Ok(s5) /\ ~ValidCRS(epsg_code) THEN Raise(s5, "CRSError")
                   ELSE s5
             grid == calculate_default_transform(source_raster, epsg_code)
             s7 == open_write(s6, output_raster, source_raster.driver,
                              grid.width, grid.height, Len(source_raster.bands),
                              epsg_code, grid.transform,
                              Lower(source_raster.dtype))
         IN  IF ~Ok(s5) THEN s5
             ELSE IF ~Ok(s6) THEN s6
             ELSE ProjectLoop(s7, source_raster, output_raster, epsg_code,
                              r.resampling, 1)

(***************************************************************************)
(* copy_raster                                                              *)
(***************************************************************************)
FORMAT == "Gtiff"

RECURSIVE CopyLoop(_, _, _, _)
CopyLoop(st, input_raster_obj, output, index_band) ==
    IF ~Ok(st) \/ ~(index_band <= Len(input_raster_obj.bands)) THEN st
    ELSE CopyLoop(write_band(st, output, index_band,
                             input_raster_obj.bands[index_band]),
                  input_raster_obj, output, index_band + 1)

copy_raster(st, input_raster, output_raster, overwrite) ==
    IF ~ShouldWrite(st.fs, output_raster, overwrite) THEN st
    ELSE LET s1 == delete_raster(st, output_raster)
             s2 == writeMessage(s1, "Copying raster: " \o input_raster)
             s3 == writeMessage(s2, "Output raster: " \o output_raster)
             s4 == open_read(s3, input_raster)
             input_raster_obj == s4.fs[input_raster]
             dtype == get_raster_dtype(input_raster_obj)
             s5 == open_write(s4, output_raster, FORMAT, input_raster_obj.width,
                              input_raster_obj.height,
                              Len(input_raster_obj.bands), input_raster_obj.crs,
                              input_raster_obj.transform, dtype)
         IN  IF ~Ok(s4) THEN s4
             ELSE CopyLoop(s5, input_raster_obj, output_raster, 1)

(***************************************************************************)
(* s2_get_raster_stack_bands                                                *)
(***************************************************************************)
\* the three tests of the "L2A" branch, on the file name of a band
L2A_10m(filename) ==
    /\ Contains(filename, "10m")
    /\ \/ Contains(filename, "B02") \/ Contains(filename, "B03")
       \/ Contains(filename, "B04") \/ Contains(filename, "B08")

L2A_20m(filename) ==
    /\ Contains(filename, "20m")
    /\ \/ Contains(filename, "B05") \/ Contains(filename, "B06")
       \/ Contains(filename, "B07") \/ Contains(filename, "B8A")
       \/ Contains(filename, "B11") \/ Contains(filename, "B12")

L2A_60m(filename) ==
    /\ Contains(filename, "60m")
    /\ \/ Contains(filename, "B01") \/ Contains(filename, "B09")
       \/ Contains(filename, "WVP")

\* the three tests of the "L1C" branch
L1C_10m(filename) ==
    \/ Contains(filename, "B02") \/ Contains(filename, "B03")
    \/ Contains(filename, "B04") \/ Contains(filename, "B08")

L1C_20m(filename) ==
    \/ Contains(filename, "B05") \/ Contains(filename, "B06")
    \/ Contains(filename, "B07") \/ Contains(filename, "B8A")
    \/ Contains(filename, "B11") \/ Contains(filename, "B12")

L1C_60m(filename) ==
    \/ Contains(filename, "B01") \/ Contains(filename, "B09")
    \/ Contains(filename, "B11")

\* variant of L2AStep: the resolution tag alone decides, the band codes are
\* not tested
L2AStepTagOnly(g, raster) ==
    LET filename == basename(raster)
    IN  IF Contains(filename, "10m") THEN [g EXCEPT ![1] = Append(@, raster)]
        ELSE IF Contains(filename, "20m") THEN [g EXCEPT ![2] = Append(@, raster)]
        ELSE IF Contains(filename, "60m") THEN [g EXCEPT ![3] = Append(@, raster)]
        ELSE g

\* one pass of the "L2A" loop body; g is <<list_10m_bands, list_20m_bands,
\* list_60m_bands>>
L2AStep(g, raster) ==
    LET filename == basename(raster)
    IN  IF L2A_10m(filename) THEN [g EXCEPT ![1] = Append(@, raster)]
        ELSE IF L2A_20m(filename) THEN [g EXCEPT ![2] = Append(@, raster)]
        ELSE IF L2A_60m(filename) THEN [g EXCEPT ![3] = Append(@, raster)]
        ELSE g

\* one pass of the "L1C" loop body
L1CStep(g, raster) ==
    LET filename == basename(raster)
    IN  IF L1C_10m(filename) THEN [g EXCEPT ![1] = Append(@, raster)]
        ELSE IF L1C_20m(filename) THEN [g EXCEPT ![2] = Append(@, raster)]
        ELSE IF L1C_60m(filename) THEN [g EXCEPT ![3] = Append(@, raster)]
        ELSE g

RECURSIVE S2Loop(_, _, _, _)
S2Loop(g, list_rasters, s2_level, i) ==
    IF i > Len(list_rasters) THEN g
    ELSE S2Loop(IF s2_level = "L2A" THEN L2AStep(g, list_rasters[i])
                ELSE L1CStep(g, list_rasters[i]),
                list_rasters, s2_level, i + 1)

\* returns the execution record and the three lists
s2_get_raster_stack_bands(st, list_rasters, s2_level) ==
    IF s2_level = "L2A" \/ s2_level = "L1C"
    THEN [st |-> st,
          lists |-> S2Loop(<<<<>>, <<>>, <<>>>>, list_rasters, s2_level, 1)]
    ELSE [st |-> writeMessage(st, "ERROR: Unknown Sentinel-2 level: " \o s2_level),
          lists |-> <<<<>>, <<>>, <<>>>>]

(***************************************************************************)
(* create_metadata                                                          *)
(***************************************************************************)
columns ==
    <<"Raster", "Data", "Capture date", "Tile", "Bands", "Spatial resolution",
      "Projection">>

RECURSIVE JoinQuoted(_, _)
JoinQuoted(q, i) ==
    IF i > Len(q) THEN ""
    ELSE (IF i > 1 THEN ", " ELSE "") \o "'" \o q[i] \o "'"
            \o JoinQuoted(q, i + 1)

\* Python's str() of a list of plain strings: "['a', 'b']"
StrStrList(q) == "[" \o JoinQuoted(q, 1) \o "]"

\* the row written for one record (its fields are strings, so str() and the
\* csv writer leave them as they are)
MetadataRow(file_info) ==
    IF Len(file_info) = Len(columns)
    THEN <<file_info[1], file_info[2], file_info[3], file_info[4],
           file_info[5], file_info[6], file_info[7]>>
    ELSE <<"ERROR: Not enough info provided for the raster: "
              \o StrStrList(file_info)>>

\* variant of MetadataRows: a record of the wrong length is left out
RECURSIVE MetadataRowsSkipping(_, _)
MetadataRowsSkipping(list_info, i) ==
    IF i > Len(list_info) THEN <<>>
    ELSE (IF Len(list_info[i]) = Len(columns)
          THEN <<MetadataRow(list_info[i])>> ELSE <<>>)
            \o MetadataRowsSkipping(list_info, i + 1)

\* the rows the loop over list_info writes, from record i on
RECURSIVE MetadataRows(_, _)
MetadataRows(list_info, i) ==
    IF i > Len(list_info) THEN <<>>
    ELSE <<MetadataRow(list_info[i])>> \o MetadataRows(list_info, i + 1)

\* open(path, 'w') followed by the writer's rows
write_csv(st, p, rows) ==
    IF ~Ok(st) THEN st
    ELSE [st EXCEPT !.fs = Put(@, p, [kind |-> "csv", rows |-> rows]),
                    !.touched = @ \cup {p}]

\* variant of HasInfo: the length is not tested
HasInfoAlways(list_info) == TRUE

\* `len(list_info) > 0`
HasInfo(list_info) == Len(list_info) > 0

create_metadata(st, list_info, output_metadata) ==
    IF ~HasInfo(list_info)
    THEN writeMessage(st, "ERROR: No metadata data info provided: " \o output_metadata)
    ELSE IF ~ShouldWrite(st.fs, output_metadata, OVERWRITE) THEN st
    ELSE LET s1 == delete_file(st, output_metadata)
             s2 == writeMessage(s1, "Metadata: " \o basename(output_metadata))
         IN  write_csv(s2, output_metadata,
                       <<columns>> \o MetadataRows(list_info, 1))

(***************************************************************************)
(* The raster transform operations as a state machine: each action is one  *)
(* call, made on the file system the previous calls left.                  *)
(***************************************************************************)
RECURSIVE SeqsUpTo(_, _)
SeqsUpTo(S, n) ==
    IF n = 0 THEN {<<>>}
    ELSE LET shorter == SeqsUpTo(S, n - 1)
         IN  shorter \cup {Append(q, x) : q \in shorter, x \in S}

StackLists == SeqsUpTo(InputPaths, MaxList)

\* the indices a new_stack is made of: those of the bands of the larger
\* input, one below and one above
BandIndexes == 0..(Len(RasterA.bands) + 1)

NewStacks == SeqsUpTo(BandIndexes, MaxStack)

ResamplingArgs == {"nearest", "Bilinear", "CUBIC", "lanczos"}

\* the target references passed to project_raster: what the resolver
\* returns for two names it knows and for one it does not
EpsgArgs == {get_epsg_projection_code(n) : n \in {"wgs84", "lo19", "utm_34s"}}

\* the output raster and the sidecar files delete_raster removes with it
RasterGroup(raster) ==
    {raster} \cup {SidecarFile(raster, raster_extensions[k]) :
                      k \in 1..Len(raster_extensions)}

InputFiles == [p \in {PathA, PathB} |-> IF p = PathA THEN RasterA ELSE RasterB]

OutputFiles(S) == [p \in S |-> IF p = OutPath THEN OldRaster ELSE SidecarContent]

\* the output group at the start: nothing, the raster alone, the raster with
\* its world file, the raster with all its sidecar files
InitialGroups ==
    {{}, {OutPath}, {OutPath, SidecarFile(OutPath, "tfw")}, RasterGroup(OutPath)}

Init ==
    /\ \E S \in InitialGroups : fs = InputFiles @@ OutputFiles(S)
    /\ OVERWRITE \in BOOLEAN
    /\ writeMessageBound \in BOOLEAN
    /\ pre = fs
    /\ call = [op |-> "none"]
    /\ log = <<>>
    /\ exc = ""
    /\ touched = {}
    /\ ret = <<>>

Idle == call.op = "none"

\* the state a call leaves: st is the execution record at its end
Finish(st, c, r) ==
    /\ Idle
    /\ fs' = st.fs
    /\ pre' = fs
    /\ call' = c
    /\ log' = st.log
    /\ exc' = st.exc
    /\ touched' = st.touched
    /\ ret' = r
    /\ UNCHANGED <<OVERWRITE, writeMessageBound>>

StackRasters ==
    \E list_bands \in StackLists :
        Finish(stack_rasters(Start(fs), list_bands, OutPath),
               [op |-> "stack_rasters", list_bands |-> list_bands,
                output |-> OutPath, overwrite |-> OVERWRITE], <<>>)

RestackBands ==
    \E input_raster \in InputPaths, new_stack \in NewStacks :
        Finish(restack_bands(Start(fs), input_raster, OutPath, new_stack),
               [op |-> "restack_bands", input |-> input_raster,
                output |-> OutPath, new_stack |-> new_stack,
                overwrite |-> OVERWRITE], <<>>)

ProjectRaster ==
    \E input_raster \in InputPaths, resampling_str \in ResamplingArgs,
       epsg_code \in EpsgArgs :
        Finish(project_raster(Start(fs), input_raster, OutPath, resampling_str,
                              epsg_code),
               [op |-> "project_raster", input |-> input_raster,
                output |-> OutPath, resampling_str |-> resampling_str,
                epsg_code |-> epsg_code, overwrite |-> OVERWRITE], <<>>)

CopyRaster ==
    \E input_raster \in InputPaths, overwrite \in BOOLEAN :
        Finish(copy_raster(Start(fs), input_raster, OutPath, overwrite),
               [op |-> "copy_raster", input |-> input_raster,
                output |-> OutPath, overwrite |-> overwrite], <<>>)

DeleteRaster ==
    Finish(delete_raster(Start(fs), OutPath),
           [op |-> "delete_raster", output |-> OutPath], <<>>)

\* the driving script goes on to its next call, on the files as they are
Resume ==
    /\ ~Idle
    /\ pre' = fs
    /\ call' = [op |-> "none"]
    /\ log' = <<>>
    /\ exc' = ""
    /\ touched' = {}
    /\ ret' = <<>>
    /\ UNCHANGED <<fs, OVERWRITE, writeMessageBound>>

Next ==
    \/ StackRasters
    \/ RestackBands
    \/ ProjectRaster
    \/ CopyRaster
    \/ DeleteRaster
    \/ Resume

Spec == Init /\ [][Next]_vars

(***************************************************************************)
(* The catalog writer as a state machine.                                   *)
(***************************************************************************)
MaxFields == 8      \* longest record passed to create_metadata
MaxRecords == 2     \* longest list_info passed to create_metadata

MetaPath == "out/metadata.csv"

OldCsv == [kind |-> "csv", rows |-> <<<<"old">>>>]

\* a record of n fields; the tag tells two records of one length apart
Record(n, tag) == [i \in 1..n |-> tag \o ToString(i)]

Records == {Record(n, tag) : n \in 0..MaxFields, tag \in {"a", "b"}}

InfoLists == SeqsUpTo(Records, MaxRecords)

InitCatalog ==
    /\ fs \in {NoFiles, MetaPath :> OldCsv}
    /\ OVERWRITE \in BOOLEAN
    /\ writeMessageBound \in BOOLEAN
    /\ pre = fs
    /\ call = [op |-> "none"]
    /\ log = <<>>
    /\ exc = ""
    /\ touched = {}
    /\ ret = <<>>

CreateMetadata ==
    \E list_info \in InfoLists :
        Finish(create_metadata(Start(fs), list_info, MetaPath),
               [op |-> "create_metadata", list_info |-> list_info,
                output |-> MetaPath, overwrite |-> OVERWRITE], <<>>)

DeleteFile ==
    Finish(delete_file(Start(fs), MetaPath),
           [op |-> "delete_file", output |-> MetaPath], <<>>)

NextCatalog ==
    \/ CreateMetadata
    \/ DeleteFile

SpecCatalog == InitCatalog /\ [][NextCatalog]_vars

(***************************************************************************)
(* The resolver and the band classifier, applied to inputs drawn from      *)
(* bounded sets.                                                            *)
(***************************************************************************)
MaxRasters == 2     \* longest list_rasters passed to the classifier

\* the names the comments of the configuration and of the resolver list,
\* with lo17, which the resolver accepts too
DocumentedNames ==
    {"wgs84", "hartebeesthoek", "web", "albers_africa", "albers_south_africa",
     "lo15", "lo17", "lo19", "lo21", "lo23", "lo25", "lo27", "lo29", "lo31",
     "lo33", "utm_33s", "utm_34s", "utm_35s", "utm_36s"}

OtherNames ==
    {"", "WGS84", "wgs84 ", "lo20", "lo", "utm", "utm_37s", "EPSG:4326",
     "albers", "Web"}

NameArgs == ResolverNames \cup DocumentedNames \cup OtherNames

S2Paths ==
    {"s2/T34_B02_10m.jp2", "s2/T34_B05_20m.jp2", "s2/T34_B01_60m.jp2",
     "s2/T34_B02_20m.jp2", "s2/T34_TCI_10m.jp2", "B02_10m/T34_B8A_20m.jp2",
     "s2/B02_10m_B05_20m.jp2", "s2/T34_B11.jp2"}

RasterLists == SeqsUpTo(S2Paths, MaxRasters)

LevelArgs == {"L2A", "L1C", "L2B"}

InitPure ==
    /\ fs = NoFiles
    /\ OVERWRITE = FALSE
    /\ writeMessageBound \in BOOLEAN
    /\ pre = fs
    /\ call = [op |-> "none"]
    /\ log = <<>>
    /\ exc = ""
    /\ touched = {}
    /\ ret = <<>>

GetEpsgProjectionCode ==
    \E projection_name \in NameArgs :
        Finish(Start(fs),
               [op |-> "get_epsg_projection_code",
                projection_name |-> projection_name],
               get_epsg_projection_code(projection_name))

S2GetRasterStackBands ==
    \E list_rasters \in RasterLists, s2_level \in LevelArgs :
        LET r == s2_get_raster_stack_bands(Start(fs), list_rasters, s2_level)
        IN  Finish(r.st,
                   [op |-> "s2_get_raster_stack_bands",
                    list_rasters |-> list_rasters, s2_level |-> s2_level],
                   IF Ok(r.st) THEN r.lists ELSE <<>>)

NextPure ==
    \/ GetEpsgProjectionCode
    \/ S2GetRasterStackBands
    \/ Resume

SpecPure == InitPure /\ [][NextPure]_vars

(***************************************************************************)
(* read_raster_sentinel2_metadata                                           *)
(***************************************************************************)
\* Python's s[:n]
Prefix(s, n) == SubSeq(s, 1, IF n < Len(s) THEN n ELSE Len(s))

\* Python's s[1:]
DropFirst(s) == SubSeq(s, 2, Len(s))

\* Python's s.split(sep) for a separator of one character
RECURSIVE SplitFrom(_, _, _)
SplitFrom(s, sep, i) ==
    LET hits == {j \in i..Len(s) : CharAt(s, j) = sep}
    IN  IF hits = {} THEN <<SubSeq(s, i, Len(s))>>
        ELSE LET j == CHOOSE h \in hits : \A k \in hits : h <= k
             IN  <<SubSeq(s, i, j - 1)>> \o SplitFrom(s, sep, j + 1)

Split(s, sep) == SplitFrom(s, sep, 1)

remove_unwanted_txt(string) ==
    Replace(Replace(Replace(string, " ", ""), "\n", ""), "\t", "")

\* the text a product-identifier line encloses, the ".SAFE" suffix removed
ProductInfo(file_line) ==
    Replace(Replace(remove_unwanted_txt(file_line), "<PRODUCT_URI>", ""),
            ".SAFE</PRODUCT_URI>", "")

\* the band path an image-file line yields
RasterDir(file_line, raw_folder) ==
    raw_folder \o Replace(Replace(remove_unwanted_txt(file_line),
                                  "<IMAGE_FILE>", ""),
                          "</IMAGE_FILE>", ".jp2")

\* one pass of the loop over the lines; acc holds the execution record and
\* the four results so far.  An index past the end of list_split_line
\* raises IndexError.
MetadataLine(acc, file_line, raw_folder) ==
    IF ~Ok(acc.st) THEN acc
    ELSE LET list_split_line == Split(ProductInfo(file_line), "_")
             a1 == IF ~Contains(file_line, "<PRODUCT_URI>") THEN acc
                   ELSE IF Len(list_split_line) < 6
                   THEN [acc EXCEPT !.st = Raise(@, "IndexError")]
                   ELSE [acc EXCEPT !.sensor = list_split_line[1],
                                    !.date = Prefix(list_split_line[3], 8),
                                    !.tile = DropFirst(list_split_line[6])]
         IN  IF ~Ok(a1.st) THEN a1
             ELSE IF Contains(file_line, "<IMAGE_FILE>")
             THEN [a1 EXCEPT !.list_rasters =
                                Append(@, RasterDir(file_line, raw_folder))]
             ELSE a1

RECURSIVE MetadataLoop(_, _, _, _)
MetadataLoop(acc, list_lines, raw_folder, i) ==
    IF i > Len(list_lines) THEN acc
    ELSE MetadataLoop(MetadataLine(acc, list_lines[i], raw_folder),
                      list_lines, raw_folder, i + 1)

\* returns the execution record and sensor, date, tile, list_rasters
read_raster_sentinel2_metadata(st, metadata, raw_folder) ==
    LET acc0 == [st |-> st, sensor |-> "", date |-> "", tile |-> "",
                 list_rasters |-> <<>>]
    IN  IF exists(st.fs, metadata)
        THEN MetadataLoop(acc0, st.fs[metadata].lines, raw_folder, 1)
        ELSE [acc0 EXCEPT !.st = writeMessage(st, "ERROR: Metadata " \o metadata \o " does not exist!")]

(***************************************************************************)
(* The metadata parser as a state machine: a metadata document is parsed   *)
(* and the band paths it yields are classified.                             *)
(***************************************************************************)
MaxImages == 2      \* most image-file lines of a metadata document

MetadataPath == "raw/MTD_MSIL2A.xml"

RawFolder == "raw/"

\* a product identifier of the Sentinel-2 naming convention
ConventionToken == "S2A_MSIL2A_20190101T081331_N0211_R078_T34HCH_20190101T103000"

\* product identifiers: the convention's, and ones with segments missing
\* or added
ProductTokens ==
    {ConventionToken,
     "S2A_OPER_MSIL2A_20190101T081331_N0211_R078_T34HCH_20190101T103000",
     "S2A_MSIL2A_20190101T081331_N0211_R078_T34HCH",
     "S2A_MSIL2A_20190101T081331_N0211_R078",
     "S2A_MSIL2A",
     "S2A",
     ""}

ProductLine(token) == "    <PRODUCT_URI>" \o token \o ".SAFE</PRODUCT_URI>\n"

ImageNames ==
    {"IMG_DATA/R10m/T34_B02_10m", "IMG_DATA/R20m/T34_B05_20m", "IMG_DATA/T34_B8A"}

ImageLine(name) == "\t<IMAGE_FILE>" \o name \o "</IMAGE_FILE>\n"

RECURSIVE ImageLines(_, _)
ImageLines(names, i) ==
    IF i > Len(names) THEN <<>>
    ELSE <<ImageLine(names[i])>> \o ImageLines(names, i + 1)

\* the documents: a header line, at most one product-identifier line, up to
\* MaxImages image-file lines
Documents ==
    {[kind |-> "text", lines |-> <<"<n1:General_Info>\n">> \o product \o ImageLines(names, 1)] :
        product \in {<<>>} \cup {<<ProductLine(t)>> : t \in ProductTokens},
        names \in SeqsUpTo(ImageNames, MaxImages)}

InitMetadata ==
    /\ fs \in {NoFiles} \cup {MetadataPath :> d : d \in Documents}
    /\ OVERWRITE = FALSE
    /\ writeMessageBound \in BOOLEAN
    /\ pre = fs
    /\ call = [op |-> "none"]
    /\ log = <<>>
    /\ exc = ""
    /\ touched = {}
    /\ ret = <<>>

ReadMetadata ==
    LET r == read_raster_sentinel2_metadata(Start(fs), MetadataPath, RawFolder)
    IN  Finish(r.st,
               [op |-> "read_raster_sentinel2_metadata",
                metadata |-> MetadataPath, raw_folder |-> RawFolder],
               IF Ok(r.st) THEN <<r.sensor, r.date, r.tile, r.list_rasters>>
               ELSE <<>>)

\* the band paths the parser returned go to the classifier
ClassifyParsed ==
    /\ call.op = "read_raster_sentinel2_metadata"
    /\ exc = ""
    /\ \E s2_level \in LevelArgs :
        LET r == s2_get_raster_stack_bands(Start(fs), ret[4], s2_level)
        IN  /\ fs' = r.st.fs
            /\ pre' = fs
            /\ call' = [op |-> "s2_get_raster_stack_bands",
                        list_rasters |-> ret[4], s2_level |-> s2_level]
            /\ log' = r.st.log
            /\ exc' = r.st.exc
            /\ touched' = r.st.touched
            /\ ret' = IF Ok(r.st) THEN r.lists ELSE <<>>
            /\ UNCHANGED <<OVERWRITE, writeMessageBound>>

NextMetadata ==
    \/ ReadMetadata
    \/ ClassifyParsed

SpecMetadata == InitMetadata /\ [][NextMetadata]_vars

(***************************************************************************)
(* Properties of the raster transform operations.                          *)
(***************************************************************************)
Writers == {"stack_rasters", "restack_bands", "project_raster", "copy_raster"}

\* the file at p is as it was when the call started
SameFile(p) ==
    /\ exists(fs, p) <=> exists(pre, p)
    /\ exists(fs, p) => fs[p] = pre[p]

\* neither the raster nor one of its sidecar files was removed, created or
\* written by the call, and each is as it was when the call started
GroupUntouched(raster) ==
    \A p \in RasterGroup(raster) : p \notin touched /\ SameFile(p)

\* C1: stack_rasters, restack_bands, project_raster and copy_raster leave
\* an existing output and its sidecar files exactly as they were when the
\* overwrite flag is false.
C1_ExistingOutputKept ==
    (/\ call.op \in Writers
     /\ exists(pre, call.output)
     /\ ~call.overwrite)
        => GroupUntouched(call.output)

C1_Witness ==
    /\ call.op = "stack_rasters"
    /\ call.list_bands = <<PathA, PathB>>
    /\ ~call.overwrite
    /\ RasterGroup(call.output) \subseteq DOMAIN pre
    /\ exc = ""
    /\ fs = pre

\* new_stack is empty or holds an index outside [1, band count of input]
BadStack(f, input, new_stack) ==
    \/ new_stack = <<>>
    \/ \E i \in 1..Len(new_stack) :
          new_stack[i] <= 0 \/ new_stack[i] > Len(f[input].bands)

\* C2: restack_bands on an existing input with an empty new_stack, or one
\* holding an index <= 0 or > the band count, leaves the output path as it
\* was, for either overwrite flag and whether or not the output existed
\* (the logging helper being callable).
C2_BadStackLeavesOutput ==
    (/\ call.op = "restack_bands"
     /\ writeMessageBound
     /\ exists(pre, call.input)
     /\ BadStack(pre, call.input, call.new_stack))
        => GroupUntouched(call.output)

\* the call was made with a required input raster missing
MissingInput ==
    \/ /\ call.op = "stack_rasters"
       /\ \E i \in 1..Len(call.list_bands) : ~exists(pre, call.list_bands[i])
    \/ /\ call.op \in {"restack_bands", "project_raster"}
       /\ ~exists(pre, call.input)

\* C3: stack_rasters with a missing element of list_bands, restack_bands
\* and project_raster with a missing input raster leave the output and its
\* sidecar files as they were, for either overwrite flag and whether or not
\* the output existed.
C3_MissingInputLeavesOutput == MissingInput => GroupUntouched(call.output)

C3_Witness ==
    /\ call.op = "stack_rasters"
    /\ call.list_bands = <<PathA, PathMissing>>
    /\ call.overwrite
    /\ RasterGroup(call.output) \subseteq DOMAIN pre
    /\ fs = pre

\* C4: copy_raster checks its input before it deletes or writes: with the
\* input raster missing, the output and its sidecar files are left as they
\* were, also when overwrite is true (the logging helper being callable).
C4_CopyMissingInputLeavesOutput ==
    (/\ call.op = "copy_raster"
     /\ writeMessageBound
     /\ ~exists(pre, call.input))
        => GroupUntouched(call.output)

\* the call took one of the error paths: a missing input raster, an empty
\* band list, an empty or out-of-range new_stack, an unknown Sentinel-2
\* level, an empty list_info
ErrorPath ==
    \/ MissingInput
    \/ call.op = "stack_rasters" /\ call.list_bands = <<>>
    \/ /\ call.op = "restack_bands"
       /\ exists(pre, call.input)
       /\ BadStack(pre, call.input, call.new_stack)
    \/ /\ call.op = "s2_get_raster_stack_bands"
       /\ call.s2_level \notin {"L2A", "L1C"}
    \/ call.op = "create_metadata" /\ call.list_info = <<>>

\* C5: every error path returns normally to the caller, no exception
\* propagates; an unknown Sentinel-2 level also returns three empty lists.
C5_ErrorPathsReturn ==
    ErrorPath =>
        /\ exc = ""
        /\ call.op = "s2_get_raster_stack_bands" => ret = <<<<>>, <<>>, <<>>>>

(***************************************************************************)
(* Properties of the resolver.                                              *)
(***************************************************************************)
NotFoundPrefix == "ERROR: Projection not found: "

C7_DocumentedNamesResolve ==
    (/\ call.op = "get_epsg_projection_code"
     /\ call.projection_name \in DocumentedNames)
        => /\ ~StartsWith(ret, "ERROR: Projection not found")
           /\ ret = get_epsg_projection_code(call.projection_name)

(***************************************************************************)
(* Properties of the catalog writer.                                        *)
(***************************************************************************)
\* the call wrote the file at its output path
WroteOutput == exc = "" /\ call.output \in touched /\ exists(fs, call.output)

\* C8: a file create_metadata writes for N >= 1 records has N+1 rows, the
\* header and then one row per record in input order: the 7 fields of a
\* record of 7 fields, a single error cell for any other record (the
\* logging helper being callable).
C8_OneRowPerRecord ==
    (/\ call.op = "create_metadata"
     /\ writeMessageBound
     /\ WroteOutput)
        => LET rows == fs[call.output].rows
               N == Len(call.list_info)
           IN  /\ N >= 1
               /\ Len(rows) = N + 1
               /\ rows[1] = columns
               /\ Len(rows[1]) = 7
               /\ \A k \in 1..N :
                    LET file_info == call.list_info[k]
                    IN  IF Len(file_info) = 7
                        THEN rows[k + 1] = file_info
                        ELSE /\ Len(rows[k + 1]) = 1
                             /\ StartsWith(rows[k + 1][1], "ERROR: ")
                             /\ Contains(rows[k + 1][1], StrStrList(file_info))

C8_Witness ==
    /\ call.op = "create_metadata"
    /\ WroteOutput
    /\ exists(pre, call.output)
    /\ Len(call.list_info) = 2
    /\ Len(call.list_info[1]) = 8
    /\ Len(call.list_info[2]) = 7
    /\ Len(fs[call.output].rows) = 3

\* C9: create_metadata creates, deletes and modifies no file when list_info
\* is empty, whatever the overwrite flag, or when the output exists and the
\* overwrite flag is false.
C9_NothingWrittenWhenSkipped ==
    (/\ call.op = "create_metadata"
     /\ \/ call.list_info = <<>>
        \/ exists(pre, call.output) /\ ~call.overwrite)
        => touched = {} /\ fs = pre

C9_Witness ==
    /\ call.op = "create_metadata"
    /\ call.list_info = <<>>
    /\ call.overwrite
    /\ exists(pre, call.output)
    /\ fs = pre

(***************************************************************************)
(* Properties of the band classifier.                                       *)
(***************************************************************************)
InList(x, q) == \E i \in 1..Len(q) : q[i] = x

\* the elements of q that satisfy Keep, in the order of q
RECURSIVE Filter(_, _, _)
Filter(q, Keep(_), i) ==
    IF i > Len(q) THEN <<>>
    ELSE (IF Keep(q[i]) THEN <<q[i]>> ELSE <<>>) \o Filter(q, Keep, i + 1)

\* each of the three groups is the input list with some elements left out
GroupsKeepOrder ==
    \A k \in 1..3 :
        LET InGroup(x) == InList(x, ret[k])
        IN  ret[k] = Filter(call.list_rasters, InGroup, 1)

AtMostOneGroup ==
    \A i \in 1..Len(call.list_rasters) :
        Cardinality({k \in 1..3 : InList(call.list_rasters[i], ret[k])}) <= 1

OnlyInGroup(x, k) ==
    \A j \in 1..3 : InList(x, ret[j]) <=> j = k

L2ACall ==
    /\ call.op = "s2_get_raster_stack_bands"
    /\ call.s2_level = "L2A"
    /\ exc = ""

\* C10 as stated: with level "L2A" a path whose file name contains "10m"
\* and "B02" is in the 10m group only, one containing "20m" and "B05" in
\* the 20m group only, one matching no rule in no group; every path is in
\* at most one group and each group keeps the input order.
C10_AsStated ==
    L2ACall =>
        /\ \A i \in 1..Len(call.list_rasters) :
             LET raster == call.list_rasters[i]
                 filename == basename(raster)
             IN  /\ (Contains(filename, "10m") /\ Contains(filename, "B02"))
                        => OnlyInGroup(raster, 1)
                 /\ (Contains(filename, "20m") /\ Contains(filename, "B05"))
                        => OnlyInGroup(raster, 2)
                 /\ (~L2A_10m(filename) /\ ~L2A_20m(filename)
                        /\ ~L2A_60m(filename))
                        => OnlyInGroup(raster, 0)
        /\ AtMostOneGroup
        /\ GroupsKeepOrder

\* C10 amended: the 20m clause holds for the file names that do not also
\* satisfy the 10m rule, which is tested first.
C10_FirstRuleWins ==
    L2ACall =>
        /\ \A i \in 1..Len(call.list_rasters) :
             LET raster == call.list_rasters[i]
                 filename == basename(raster)
             IN  /\ (Contains(filename, "10m") /\ Contains(filename, "B02"))
                        => OnlyInGroup(raster, 1)
                 /\ (Contains(filename, "20m") /\ Contains(filename, "B05")
                        /\ ~L2A_10m(filename))
                        => OnlyInGroup(raster, 2)
                 /\ (~L2A_10m(filename) /\ ~L2A_20m(filename)
                        /\ ~L2A_60m(filename))
                        => OnlyInGroup(raster, 0)
        /\ AtMostOneGroup
        /\ GroupsKeepOrder

C10_Witness ==
    /\ L2ACall
    /\ call.list_rasters = <<"s2/T34_B05_20m.jp2", "s2/B02_10m_B05_20m.jp2">>
    /\ ret = <<<<"s2/B02_10m_B05_20m.jp2">>, <<"s2/T34_B05_20m.jp2">>, <<>>>>

(***************************************************************************)
(* Properties of what the transforms write.                                 *)
(***************************************************************************)
\* the call passed the test that lets a writer delete and rewrite its output
PassedOverwriteTest == ~exists(pre, call.output) \/ call.overwrite

ProjectProceeds ==
    /\ call.op = "project_raster"
    /\ exists(pre, call.input)
    /\ PassedOverwriteTest
    /\ ValidCRS(call.epsg_code)

KnownResampling == {"nearest", "bilinear", "cubic"}

\* C12: given a resampling name other than nearest, bilinear or cubic
\* (lower-cased), project_raster warns, goes on with the nearest-neighbour
\* method and completes the reprojection instead of aborting.
C12_UnknownResamplingFallsBack ==
    (/\ ProjectProceeds
     /\ Lower(call.resampling_str) \notin KnownResampling)
        => /\ exc = ""
           /\ \E i \in 1..Len(log) : Contains(log[i], "WARNING: Unknown resampling")
           /\ exists(fs, call.output)
           /\ call.output \in touched
           /\ \A b \in 1..Len(fs[call.output].bands) :
                fs[call.output].bands[b].resampling
                    \in {"", "Resampling.nearest"}

\* C13: when project_raster proceeds, every band of the source, 1 to
\* band_count inclusive, is reprojected into the output band of the same
\* index; no output band is left unwritten (the logging helper being
\* callable).
C13_EveryBandProjected ==
    (ProjectProceeds /\ writeMessageBound)
        => /\ exc = ""
           /\ exists(fs, call.output)
           /\ Len(fs[call.output].bands) = Len(pre[call.input].bands)
           /\ \A b \in 1..Len(pre[call.input].bands) :
                /\ fs[call.output].bands[b] # Unwritten
                /\ fs[call.output].bands[b].data = pre[call.input].bands[b].data
                /\ fs[call.output].bands[b].dst_crs = call.epsg_code

RestackProceeds ==
    /\ call.op = "restack_bands"
    /\ exists(pre, call.input)
    /\ PassedOverwriteTest
    /\ ~BadStack(pre, call.input, call.new_stack)

\* C15: when restack_bands proceeds with a non-empty new_stack of indices
\* in [1, band_count], the output has len(new_stack) bands and output band
\* k holds source band new_stack[k]; indices may repeat, bands not listed
\* are left out (the logging helper being callable).
C15_RestackSelectsBands ==
    (RestackProceeds /\ writeMessageBound)
        => /\ exc = ""
           /\ exists(fs, call.output)
           /\ Len(fs[call.output].bands) = Len(call.new_stack)
           /\ \A k \in 1..Len(call.new_stack) :
                fs[call.output].bands[k]
                    = pre[call.input].bands[call.new_stack[k]]

C15_Witness ==
    /\ RestackProceeds
    /\ writeMessageBound
    /\ call.input = PathA
    /\ call.new_stack = <<3, 1>>
    /\ exists(pre, call.output)
    /\ fs[call.output].bands = <<Pixels(13), Pixels(11)>>

StackProceeds ==
    /\ call.op = "stack_rasters"
    /\ call.list_bands # <<>>
    /\ \A i \in 1..Len(call.list_bands) : exists(pre, call.list_bands[i])
    /\ PassedOverwriteTest

\* C16: when stack_rasters proceeds on a non-empty list of n inputs, the
\* output has n bands, output band i holds band 1 of the i-th input, and
\* crs, transform, width and height are those of the first input (the
\* logging helper being callable).
C16_StackKeepsOrderAndGrid ==
    (StackProceeds /\ writeMessageBound)
        => LET out == fs[call.output]
               first == pre[call.list_bands[1]]
           IN  /\ exc = ""
               /\ exists(fs, call.output)
               /\ Len(out.bands) = Len(call.list_bands)
               /\ \A i \in 1..Len(call.list_bands) :
                    out.bands[i] = pre[call.list_bands[i]].bands[1]
               /\ out.crs = first.crs
               /\ out.transform = first.transform
               /\ out.width = first.width
               /\ out.height = first.height

C16_Witness ==
    /\ StackProceeds
    /\ writeMessageBound
    /\ call.list_bands = <<PathB, PathA>>
    /\ exists(pre, call.output)
    /\ fs[call.output].bands = <<Pixels(21), Pixels(11)>>
    /\ fs[call.output].crs = RasterB.crs

(***************************************************************************)
(* Properties of the metadata parser.                                       *)
(***************************************************************************)
\* C11: with the metadata document missing, the parser logs an error and
\* returns sensor "", date "", tile "" and no bands, without raising; the
\* classifier called on that empty list returns three empty groups for
\* level "L2A" and for level "L1C".
C11_MissingDocumentGivesEmptyResults ==
    /\ (/\ call.op = "read_raster_sentinel2_metadata"
        /\ ~exists(pre, call.metadata))
          => /\ exc = ""
             /\ \E i \in 1..Len(log) : Contains(log[i], "ERROR: Metadata")
             /\ ret = <<"", "", "", <<>>>>
    /\ (/\ call.op = "s2_get_raster_stack_bands"
        /\ call.list_rasters = <<>>
        /\ call.s2_level \in {"L2A", "L1C"})
          => /\ exc = ""
             /\ ret = <<<<>>, <<>>, <<>>>>

\* the number of '_'-delimited segments of the convention's identifier
ExpectedSegments == Len(Split(ConventionToken, "_"))

\* the document parsed holds a product-identifier line whose token has
\* fewer or more segments than the convention's
HasOddProductLine ==
    /\ exists(pre, call.metadata)
    /\ \E i \in 1..Len(pre[call.metadata].lines) :
         LET file_line == pre[call.metadata].lines[i]
         IN  /\ Contains(file_line, "<PRODUCT_URI>")
             /\ Len(Split(ProductInfo(file_line), "_")) # ExpectedSegments

\* C14: on a product-identifier line whose token has fewer or more
\* '_'-delimited segments than the naming convention's, the parser fails
\* loudly and returns no sensor, date and tile taken from wrong positions.
C14_OddTokenFailsLoudly ==
    (/\ call.op = "read_raster_sentinel2_metadata"
     /\ HasOddProductLine)
        => exc # ""

====
